---- MODULE Spec2Model ----
(***************************************************************************)
(* lmsal_archive_scrape.py: the incremental scrape / merge / deduplicate   *)
(* pipeline for the LMSAL "latest events" archive.                         *)
(*                                                                         *)
(* Cell texts are modelled as atomic strings.  A pandas DataFrame is a     *)
(* sequence of records (one per row); a CSV file is a sequence of records  *)
(* whose fields are all texts.  A datetime is an integer yyyymmddhh and    *)
(* NaT is -1; a missing cell (float nan) is the value NaN.                 *)
(***************************************************************************)
EXTENDS Integers, Sequences, FiniteSets, TLC

VARIABLES
    site,           \* the web: base archive page and the snapshot pages
    events_csv,     \* the file EVENTS_CSV_PATH: rows of texts (<<>>: absent)
    summary_csv,    \* the file SUMMARY_CSV_PATH
    pc,             \* position of the running command
    snapshots,      \* update_events_csv: list of snapshot dicts
    i,              \* update_events_csv: 1-based index of the loop
    all_events,     \* update_events_csv: list of per-snapshot frames
    skipped_pages,  \* update_events_csv: counter
    broken_urls,    \* update_events_csv: list of skipped urls
    new_df,         \* freshly scraped frame
    old_df,         \* frame loaded from the csv
    added,          \* the "Added N new" figure printed by the last write
    trace,          \* I/O done by the current run, in order
    run             \* bookkeeping across runs (history of the session)

vars == <<site, events_csv, summary_csv, pc, snapshots, i, all_events,
          skipped_pages, broken_urls, new_df, old_df, added, trace, run>>

---------------------------------------------------------------------------
(* Configuration and bounds *)

MIN_YEAR == 2020

MaxRuns == 2        \* commands run in one session
MaxOldRows == 2     \* rows of an arbitrary prior events file
MaxNewRows == 2     \* rows of an arbitrary scraped events frame
MaxIndexRows == 4   \* <tr> rows of an arbitrary base page

NaT == -1
NaN == "float(nan)"

SeqsUpTo(S, n) == UNION {[1..k -> S] : k \in 0..n}

Max(a, b) == IF a >= b THEN a ELSE b

RECURSIVE Flatten(_)
Flatten(frames) ==
    IF frames = <<>> THEN <<>> ELSE Head(frames) \o Flatten(Tail(frames))

---------------------------------------------------------------------------
(* Date/time parsing and formatting *)

\* pd.to_datetime(text, format="%d-%b-%Y %H:%M", errors="coerce")
StrptimeArchive(text) ==
    CASE text = "03-Jan-2019 00:00" -> 2019010300
      [] text = "01-Jan-2021 00:00" -> 2021010100
      [] text = "02-Jan-2021 00:00" -> 2021010200
      [] text = "05-Jan-2022 00:00" -> 2022010500
      [] text = "07-Jan-2023 00:00" -> 2023010700
      [] OTHER -> NaT

\* pd.to_datetime(text, errors="coerce"): the format is inferred
ToDatetime(v) ==
    CASE v = "2021/01/01 01:00:00" -> 2021010101
      [] v = "2021-01-01T01:00" -> 2021010101
      [] v = "2021-01-01 01:00:00" -> 2021010101
      [] v = "2021/01/02 02:00:00" -> 2021010202
      [] v = "2021-01-02T02:00" -> 2021010202
      [] v = "2021-01-02 02:00:00" -> 2021010202
      [] v = "2019-01-03 00:00:00" -> 2019010300
      [] v = "2021-01-01 00:00:00" -> 2021010100
      [] v = "2021-01-02 00:00:00" -> 2021010200
      [] v = "2022-01-05 00:00:00" -> 2022010500
      [] v = "2023-01-07 00:00:00" -> 2023010700
      [] OTHER -> NaT

\* a datetime64 cell as to_csv writes it; NaT is written as the empty field
FormatDatetime(t) ==
    CASE t = 2021010101 -> "2021-01-01 01:00:00"
      [] t = 2021010202 -> "2021-01-02 02:00:00"
      [] t = 2019010300 -> "2019-01-03 00:00:00"
      [] t = 2021010100 -> "2021-01-01 00:00:00"
      [] t = 2021010200 -> "2021-01-02 00:00:00"
      [] t = 2022010500 -> "2022-01-05 00:00:00"
      [] t = 2023010700 -> "2023-01-07 00:00:00"
      [] OTHER -> ""

\* Timestamp.year
Year(t) == t \div 1000000

---------------------------------------------------------------------------
(* CSV persistence: DataFrame.to_csv and pd.read_csv(dtype=str) *)

\* the texts read_csv turns into a missing value (its default na_values)
NA_VALUES ==
    {"", "#N/A", "#N/A N/A", "#NA", "-1.#IND", "-1.#QNAN", "-NaN", "-nan",
     "1.#IND", "1.#QNAN", "<NA>", "N/A", "NA", "NULL", "NaN", "None", "n/a",
     "nan", "null"}

ReadCsvCell(text) == IF text \in NA_VALUES THEN NaN ELSE text

\* an object cell as to_csv writes it (na_rep is the empty field)
ToCsvCell(v) == IF v = NaN THEN "" ELSE v

EventColumns ==
    {"SnapshotTime", "SnapshotURL", "EventNum", "EName", "Start", "Stop",
     "Peak", "GOESClass", "DerivedPosition"}

SummaryColumns ==
    {"ReportDate", "StartTime", "EndTime", "TotalEvents", "LargestFlare",
     "Cclass", "Mclass", "Xclass", "ProtonEvents"}

\* load_existing: every column read as text, NA texts as missing
load_existing(csv) ==
    [k \in DOMAIN csv |-> [c \in DOMAIN csv[k] |-> ReadCsvCell(csv[k][c])]]

\* combined.to_csv(EVENTS_CSV_PATH, index=False), Start/Stop/Peak datetime64
EventsToCsv(df) ==
    [k \in DOMAIN df |->
        [c \in EventColumns |->
            IF c \in {"Start", "Stop", "Peak"}
            THEN FormatDatetime(df[k][c])
            ELSE ToCsvCell(df[k][c])]]

\* combined.to_csv(SUMMARY_CSV_PATH, index=False), Report Date datetime64
SummaryToCsv(df) ==
    [k \in DOMAIN df |->
        [c \in SummaryColumns |->
            IF c = "ReportDate"
            THEN FormatDatetime(df[k][c])
            ELSE ToCsvCell(df[k][c])]]

---------------------------------------------------------------------------
(* The event merge of update_events_csv *)

\* pd.concat([old_df, new_df]) if not old_df.empty else new_df
Concat(old, new) == IF old # <<>> THEN old \o new ELSE new

\* the "Snapshot Time Parsed" column, and Start/Stop/Peak made datetimes
ParseEventTimes(df) ==
    [k \in DOMAIN df |->
        [c \in EventColumns \cup {"SnapshotTimeParsed"} |->
            CASE c = "SnapshotTimeParsed" -> StrptimeArchive(df[k].SnapshotTime)
              [] c \in {"Start", "Stop", "Peak"} -> ToDatetime(df[k][c])
              [] OTHER -> df[k][c]]]

\* the sort with ascending=[True, True]: the oldest snapshot first
EventBeforeAscending(a, b) ==
    \/ a.SnapshotTimeParsed < b.SnapshotTimeParsed
    \/ /\ a.SnapshotTimeParsed = b.SnapshotTimeParsed
       /\ a.Peak < b.Peak

\* the sort by "Snapshot Time Parsed" alone
EventBeforeSnapshotOnly(a, b) ==
    a.SnapshotTimeParsed > b.SnapshotTimeParsed

\* the sort with na_position="first": NaT goes before every time, in each key
EventBeforeNaTFirst(a, b) ==
    LET key(t) == IF t = NaT THEN 2147483647 ELSE t
    IN  \/ key(a.SnapshotTimeParsed) > key(b.SnapshotTimeParsed)
        \/ /\ key(a.SnapshotTimeParsed) = key(b.SnapshotTimeParsed)
           /\ key(a.Peak) > key(b.Peak)

\* a sorts strictly before b under
\* sort_values(["Snapshot Time Parsed", "Peak"], ascending=[False, False]);
\* NaT goes last in each key (na_position="last")
EventBefore(a, b) ==
    \/ a.SnapshotTimeParsed > b.SnapshotTimeParsed
    \/ /\ a.SnapshotTimeParsed = b.SnapshotTimeParsed
       /\ a.Peak > b.Peak

RECURSIVE InsertEvent(_, _)
\* r put into the sorted s behind every row that does not sort after it
InsertEvent(r, s) ==
    IF s = <<>> THEN <<r>>
    ELSE IF EventBefore(r, Head(s)) THEN <<r>> \o s
    ELSE <<Head(s)>> \o InsertEvent(r, Tail(s))

RECURSIVE SortEvents(_)
\* the two-key sort is a stable one: rows with equal keys keep their order
SortEvents(df) ==
    IF df = <<>> THEN <<>>
    ELSE InsertEvent(df[Len(df)], SortEvents(SubSeq(df, 1, Len(df) - 1)))

RECURSIVE DropDuplicatesWholeRow(_, _)
\* drop_duplicates(keep="first") without the subset: only equal rows are dropped
DropDuplicatesWholeRow(df, col) ==
    IF df = <<>> THEN <<>>
    ELSE LET init == DropDuplicatesWholeRow(SubSeq(df, 1, Len(df) - 1), col)
             last == df[Len(df)]
         IN  IF \E k \in 1..(Len(df) - 1) : df[k] = last
             THEN init ELSE Append(init, last)

RECURSIVE DropDuplicatesFirst(_, _)
\* drop_duplicates(subset=[col], keep="first"); missing keys equal each other
DropDuplicatesFirst(df, col) ==
    IF df = <<>> THEN <<>>
    ELSE LET init == DropDuplicatesFirst(SubSeq(df, 1, Len(df) - 1), col)
             last == df[Len(df)]
         IN  IF \E k \in 1..(Len(df) - 1) : df[k][col] = last[col]
             THEN init ELSE Append(init, last)

\* drop(columns=["Snapshot Time Parsed"])
DropParsed(df) == [k \in DOMAIN df |-> [c \in EventColumns |-> df[k][c]]]

\* the merge without the sort: the first row of an identifier in arrival
\* order stays
MergeEventsUnsorted(old, new) ==
    DropParsed(DropDuplicatesFirst(ParseEventTimes(Concat(old, new)), "EName"))

\* lines 290-304: the frame update_events_csv writes
MergeEvents(old, new) ==
    DropParsed(DropDuplicatesFirst(SortEvents(ParseEventTimes(Concat(old, new))),
                                   "EName"))

\* the figure taken without the floor at zero and against the scraped rows
AddedCountOfCombined(combined, old) == Len(combined)

\* lines 308-309
AddedCount(combined, old) == Max(0, Len(combined) - Len(old))

---------------------------------------------------------------------------
(* The web pages.  A base-page row is [tds, href]: the texts of its <td>   *)
(* cells and the href of the link in the first cell (NoLink: none), whose  *)
(* text is the text of that cell.  A snapshot page is a sequence of        *)
(* tables, a table a sequence of rows [tag, cells].                        *)

BASE_URL == "https://lmsal.com/solarsoft/latest_events_archive.html"

NoLink == "(no link)"

\* what get_soup returns: None, or the parsed page
None == [none |-> TRUE, body |-> <<>>]
Soup(body) == [none |-> FALSE, body |-> body]

\* get_soup: None when the request fails or answers 404 (ok = FALSE)
get_soup(web, url, ok) ==
    IF ~ok THEN None
    ELSE IF url = BASE_URL THEN Soup(web.base)
    ELSE Soup(web.pages[url])

\* urljoin(base_url, a["href"])
urljoin(base, href) ==
    CASE href = "a.html" -> "https://lmsal.com/solarsoft/a.html"
      [] href = "b.html" -> "https://lmsal.com/solarsoft/b.html"
      [] href = "c.html" -> "https://lmsal.com/solarsoft/c.html"
      [] OTHER -> base

RECURSIVE ScanLinksFilter(_, _, _)
\* the loop with "continue" for "break": rows before MIN_YEAR are filtered
\* out and the scan goes on
ScanLinksFilter(base_url, rows, k) ==
    IF k > Len(rows) THEN <<>>
    ELSE LET tds == rows[k].tds
             snap_dt == StrptimeArchive(tds[1])
         IN  IF Len(tds) < 1 THEN ScanLinksFilter(base_url, rows, k + 1)
             ELSE IF rows[k].href = NoLink
             THEN ScanLinksFilter(base_url, rows, k + 1)
             ELSE IF snap_dt = NaT THEN ScanLinksFilter(base_url, rows, k + 1)
             ELSE IF Year(snap_dt) < MIN_YEAR
             THEN ScanLinksFilter(base_url, rows, k + 1)
             ELSE <<[snapshot_time |-> tds[1],
                     snapshot_url |-> urljoin(base_url, rows[k].href)]>>
                  \o ScanLinksFilter(base_url, rows, k + 1)

\* fetch_snapshot_links, lines 162-183: the loop over the rows from row k on
RECURSIVE ScanLinks(_, _, _)
ScanLinks(base_url, rows, k) ==
    IF k > Len(rows) THEN <<>>
    ELSE LET tds == rows[k].tds
             snap_dt == StrptimeArchive(tds[1])
         IN  IF Len(tds) < 1 THEN ScanLinks(base_url, rows, k + 1)
             ELSE IF rows[k].href = NoLink THEN ScanLinks(base_url, rows, k + 1)
             ELSE IF snap_dt = NaT THEN ScanLinks(base_url, rows, k + 1)
             ELSE IF Year(snap_dt) < MIN_YEAR THEN <<>>
             ELSE <<[snapshot_time |-> tds[1],
                     snapshot_url |-> urljoin(base_url, rows[k].href)]>>
                  \o ScanLinks(base_url, rows, k + 1)

\* fetch_snapshot_links on the soup of the base page
fetch_snapshot_links(base_url, soup) ==
    IF soup = None THEN <<>> ELSE ScanLinks(base_url, soup.body, 1)

\* the text of a table holds the marker
TableHas(table, marker) ==
    \E r \in DOMAIN table : \E c \in DOMAIN table[r].cells :
        table[r].cells[c] = marker

IsEventTable(table) ==
    /\ TableHas(table, "EName")
    /\ TableHas(table, "GOES Class")
    /\ TableHas(table, "Derived Position")

\* find_event_table: the first table with the three markers, or None
find_event_table(soup) ==
    IF \E t \in DOMAIN soup.body : IsEventTable(soup.body[t])
    THEN Soup(soup.body[CHOOSE t \in DOMAIN soup.body :
                 /\ IsEventTable(soup.body[t])
                 /\ \A u \in 1..(t - 1) : ~IsEventTable(soup.body[u])])
    ELSE None

\* tr.find_all("td")
FindAllTd(tr) == IF tr.tag = "td" THEN tr.cells ELSE <<>>

RECURSIVE ScanEventRowsPadded(_, _, _, _)
\* the loop taking every row that has an identifier cell, the cells a short
\* row lacks left empty
ScanEventRowsPadded(snapshot_time, snapshot_url, table, k) ==
    IF k > Len(table) THEN <<>>
    ELSE LET cols == FindAllTd(table[k])
             cell(n) == IF n <= Len(cols) THEN cols[n] ELSE ""
             rest == ScanEventRowsPadded(snapshot_time, snapshot_url, table,
                                         k + 1)
         IN  IF Len(cols) < 2 THEN rest
             ELSE IF cols[2] = "" THEN rest
             ELSE <<[SnapshotTime |-> snapshot_time,
                     SnapshotURL |-> snapshot_url,
                     EventNum |-> cell(1),
                     EName |-> cell(2),
                     Start |-> cell(3),
                     Stop |-> cell(4),
                     Peak |-> cell(5),
                     GOESClass |-> cell(6),
                     DerivedPosition |-> cell(7)]>> \o rest

\* fetch_events_from_snapshot, lines 212-229: the loop over the rows from k on
RECURSIVE ScanEventRows(_, _, _, _)
ScanEventRows(snapshot_time, snapshot_url, table, k) ==
    IF k > Len(table) THEN <<>>
    ELSE LET cols == FindAllTd(table[k])
             rest == ScanEventRows(snapshot_time, snapshot_url, table, k + 1)
         IN  IF Len(cols) < 7 THEN rest
             ELSE IF cols[2] = "" THEN rest
             ELSE <<[SnapshotTime |-> snapshot_time,
                     SnapshotURL |-> snapshot_url,
                     EventNum |-> cols[1],
                     EName |-> cols[2],
                     Start |-> cols[3],
                     Stop |-> cols[4],
                     Peak |-> cols[5],
                     GOESClass |-> cols[6],
                     DerivedPosition |-> cols[7]]>> \o rest

\* fetch_events_from_snapshot on the soup of the page; the empty frame is <<>>
fetch_events_from_snapshot(snapshot_time, snapshot_url, soup) ==
    IF soup = None THEN <<>>
    ELSE IF find_event_table(soup) = None THEN <<>>
    ELSE ScanEventRows(snapshot_time, snapshot_url,
                       find_event_table(soup).body, 1)

---------------------------------------------------------------------------
(* The summary pipeline *)

\* fetch_archive_summary_table, lines 95-102: the loop over the rows from k on
RECURSIVE ScanSummaryRows(_, _)
ScanSummaryRows(rows, k) ==
    IF k > Len(rows) THEN <<>>
    ELSE LET cols == rows[k].tds
             rest == ScanSummaryRows(rows, k + 1)
         IN  IF Len(cols) < 9 THEN rest
             ELSE <<[ReportDate |-> cols[1],
                     StartTime |-> cols[2],
                     EndTime |-> cols[3],
                     TotalEvents |-> cols[4],
                     LargestFlare |-> cols[5],
                     Cclass |-> cols[6],
                     Mclass |-> cols[7],
                     Xclass |-> cols[8],
                     ProtonEvents |-> cols[9]]>> \o rest

\* lines 118-120: Report Date parsed, rows before MIN_YEAR or unparsed dropped
RECURSIVE ParseAndFilterSummary(_)
ParseAndFilterSummary(df) ==
    IF df = <<>> THEN <<>>
    ELSE LET t == StrptimeArchive(Head(df).ReportDate)
             rest == ParseAndFilterSummary(Tail(df))
         IN  IF t # NaT /\ Year(t) >= MIN_YEAR
             THEN <<[Head(df) EXCEPT !.ReportDate = t]>> \o rest
             ELSE rest

\* the orders sort_values("Report Date", ascending=asc) may leave df in: the
\* one-key sort is not a stable one, rows of the same date come in any order;
\* NaT goes last
SortedByDate(df, asc) ==
    {[k \in DOMAIN df |-> df[p[k]]] :
        p \in {q \in [DOMAIN df -> DOMAIN df] :
                 /\ \A a, b \in DOMAIN df : a # b => q[a] # q[b]
                 /\ \A a, b \in DOMAIN df : a < b =>
                       LET x == df[q[a]].ReportDate
                           y == df[q[b]].ReportDate
                       IN  \/ y = NaT
                           \/ x # NaT /\ (IF asc THEN x <= y ELSE x >= y)}}

\* the frames fetch_archive_summary_table may return for the soup
fetch_archive_summary_table(soup) ==
    IF soup = None THEN {<<>>}
    ELSE SortedByDate(ParseAndFilterSummary(ScanSummaryRows(soup.body, 1)), TRUE)

\* combined["Report Date"] = pd.to_datetime(combined["Report Date"], ...) on
\* the rows read from the csv (the scraped rows hold datetimes already, which
\* to_datetime keeps)
ParseReportDate(df) ==
    [k \in DOMAIN df |-> [df[k] EXCEPT !.ReportDate = ToDatetime(@)]]

\* the deduplication with keep="first": the earliest inserted row of a key stays
DropDuplicatesKeepFirst(df, col) == DropDuplicatesFirst(df, col)

RECURSIVE DropDuplicatesLast(_, _)
\* drop_duplicates(subset=[col], keep="last")
DropDuplicatesLast(df, col) ==
    IF df = <<>> THEN <<>>
    ELSE IF \E k \in 2..Len(df) : df[k][col] = Head(df)[col]
    THEN DropDuplicatesLast(Tail(df), col)
    ELSE <<Head(df)>> \o DropDuplicatesLast(Tail(df), col)

\* lines 138-144: the frames update_summary_csv may write
MergeSummary(old, new) ==
    SortedByDate(DropDuplicatesLast(Concat(ParseReportDate(old), new),
                                    "ReportDate"), FALSE)

---------------------------------------------------------------------------
(* The pages the model draws from *)

\* a base-page row of n cells whose first cell shows date and links to href
BaseRow(date, href, n) ==
    [tds |-> SubSeq(<<date, "00:00", "23:59", "5", "M1.0", "3", "2", "0", "0",
                      "more">>, 1, n),
     href |-> href]

\* the rows dated 2022, 2021, 2019, 2023 under a <th> header row
BaseScenario ==
    <<BaseRow("Snapshot Time", NoLink, 0),
      BaseRow("05-Jan-2022 00:00", "a.html", 9),
      BaseRow("02-Jan-2021 00:00", "b.html", 9),
      BaseRow("03-Jan-2019 00:00", "c.html", 9),
      BaseRow("07-Jan-2023 00:00", "c.html", 9)>>

\* a row without link, a row with an unreadable date, a row of 8 cells
BaseMixed ==
    <<BaseRow("02-Jan-2021 00:00", "b.html", 10),
      BaseRow("05-Jan-2022 00:00", NoLink, 9),
      BaseRow("2021-01-01", "c.html", 9),
      BaseRow("01-Jan-2021 00:00", "a.html", 8)>>

\* nothing at or after MIN_YEAR
BaseOld == <<BaseRow("03-Jan-2019 00:00", "a.html", 9)>>

BasePages == {BaseScenario, BaseMixed, BaseOld}

\* a row of a snapshot table with n <td> cells
EventRow(num, ename, peak, n) ==
    [tag |-> "td",
     cells |-> SubSeq(<<num, ename, "2021/01/01 01:00:00", "", peak, "C1.0",
                        "S10W20", "more">>, 1, n)]

HeaderRow ==
    [tag |-> "th",
     cells |-> <<"Event#", "EName", "Start", "Stop", "Peak", "GOES Class",
                 "Derived Position">>]

\* one event
PageOne == <<<<HeaderRow, EventRow("1", "E1", "2021/01/01 01:00:00", 7)>>>>

\* a revision of E1 and a second event, behind a table that is not the event
\* table; E3 sits in a row of 6 cells
PageTwo ==
    <<<<EventRow("1", "E3", "2021/01/02 02:00:00", 7)>>,
      <<HeaderRow,
        EventRow("1", "E1", "2021/01/02 02:00:00", 8),
        EventRow("2", "E3", "2021/01/02 02:00:00", 6),
        EventRow("3", "E2", "", 7)>>>>

\* E1 twice in one snapshot, and a row without identifier
PageTwice ==
    <<<<HeaderRow,
        EventRow("1", "E1", "bad", 7),
        EventRow("2", "E1", "2021/01/02 02:00:00", 7),
        EventRow("3", "E1", "2021/01/01 01:00:00", 7),
        EventRow("4", "", "2021/01/02 02:00:00", 7)>>>>

\* no table with the three markers
PageNoTable == <<<<EventRow("1", "E2", "2021/01/01 01:00:00", 7)>>>>

\* an event table without any event
PageNoRows == <<<<HeaderRow, EventRow("1", "", "2021/01/01 01:00:00", 7)>>>>

\* an identifier that read_csv takes for a missing value
PageNA == <<<<HeaderRow, EventRow("1", "NA", "2021/01/01 01:00:00", 7)>>>>

Urls == {urljoin(BASE_URL, h) : h \in {"a.html", "b.html", "c.html"}}

PageMap(a, b, c) ==
    [u \in Urls |->
        CASE u = urljoin(BASE_URL, "a.html") -> a
          [] u = urljoin(BASE_URL, "b.html") -> b
          [] OTHER -> c]

PageMaps ==
    {PageMap(PageOne, PageTwo, PageNoTable),
     PageMap(PageTwice, PageOne, PageTwo),
     PageMap(PageNoRows, PageNoTable, PageOne),
     PageMap(PageNA, PageTwo, PageOne)}

Sites == {[base |-> b, pages |-> p] : b \in BasePages, p \in PageMaps}

---------------------------------------------------------------------------
(* The commands, step by step *)

Get(url, ok) == [op |-> "get", path |-> url, ok |-> ok]
Read(path) == [op |-> "read", path |-> path, ok |-> TRUE]
Write(path) == [op |-> "write", path |-> path, ok |-> TRUE]

EVENTS_CSV_PATH == "lmsal_events.csv"
SUMMARY_CSV_PATH == "lmsal_latest_events_archive.csv"

\* every request of the run so far was answered with a page
AllOk(tr) == \A k \in DOMAIN tr : tr[k].op = "get" => tr[k].ok

\* the bookkeeping of a run that starts now
NewRun(mode) ==
    [n |-> run.n + 1,
     mode |-> mode,
     site |-> site,
     wrote |-> FALSE,
     before |-> [events |-> events_csv, summary |-> summary_csv],
     prev |-> [mode |-> run.mode, site |-> run.site, wrote |-> run.wrote,
               ok |-> AllOk(trace)]]

Init ==
    /\ site \in Sites
    /\ events_csv = <<>>
    /\ summary_csv = <<>>
    /\ pc = "idle"
    /\ snapshots = <<>>
    /\ i = 1
    /\ all_events = <<>>
    /\ skipped_pages = 0
    /\ broken_urls = <<>>
    /\ new_df = <<>>
    /\ old_df = <<>>
    /\ added = 0
    /\ trace = <<>>
    /\ run = [n |-> 0, mode |-> "none", site |-> site, wrote |-> FALSE,
              before |-> [events |-> <<>>, summary |-> <<>>],
              prev |-> [mode |-> "none", site |-> site, wrote |-> FALSE,
                        ok |-> TRUE]]

\* the archive changes between two commands
Publish ==
    /\ pc = "idle"
    /\ run.n < MaxRuns
    /\ site' \in Sites \ {site}
    /\ UNCHANGED <<events_csv, summary_csv, pc, snapshots, i, all_events,
                   skipped_pages, broken_urls, new_df, old_df, added, trace, run>>

\* update_events_csv, lines 250-261
UpdateEventsStart ==
    /\ pc = "idle"
    /\ run.n < MaxRuns
    /\ \E ok \in BOOLEAN :
         LET links == fetch_snapshot_links(BASE_URL, get_soup(site, BASE_URL, ok))
         IN  /\ snapshots' = links
             /\ trace' = <<Get(BASE_URL, ok)>>
             /\ pc' = IF links = <<>> THEN "idle" ELSE "fetch"
    /\ run' = NewRun("events")
    /\ i' = 1
    /\ all_events' = <<>>
    /\ skipped_pages' = 0
    /\ broken_urls' = <<>>
    /\ new_df' = <<>>
    /\ old_df' = <<>>
    /\ added' = 0
    /\ UNCHANGED <<site, events_csv, summary_csv>>

\* the loop giving up the run at the first snapshot without rows
FetchSnapshotAbort ==
    /\ pc = "fetch"
    /\ i <= Len(snapshots)
    /\ \E ok \in BOOLEAN :
         LET s == snapshots[i]
             df == fetch_events_from_snapshot(
                       s.snapshot_time, s.snapshot_url,
                       get_soup(site, s.snapshot_url, ok))
         IN  /\ trace' = Append(trace, Get(s.snapshot_url, ok))
             /\ IF df = <<>>
                THEN /\ skipped_pages' = skipped_pages + 1
                     /\ broken_urls' = Append(broken_urls, s.snapshot_url)
                     /\ pc' = "idle"
                     /\ UNCHANGED all_events
                ELSE /\ all_events' = Append(all_events, df)
                     /\ UNCHANGED <<skipped_pages, broken_urls, pc>>
    /\ i' = i + 1
    /\ UNCHANGED <<site, events_csv, summary_csv, snapshots, new_df, old_df,
                   added, run>>

\* update_events_csv, lines 264-274: one turn of the loop
FetchSnapshot ==
    /\ pc = "fetch"
    /\ i <= Len(snapshots)
    /\ \E ok \in BOOLEAN :
         LET s == snapshots[i]
             df == fetch_events_from_snapshot(
                       s.snapshot_time, s.snapshot_url,
                       get_soup(site, s.snapshot_url, ok))
         IN  /\ trace' = Append(trace, Get(s.snapshot_url, ok))
             /\ IF df = <<>>
                THEN /\ skipped_pages' = skipped_pages + 1
                     /\ broken_urls' = Append(broken_urls, s.snapshot_url)
                     /\ UNCHANGED all_events
                ELSE /\ all_events' = Append(all_events, df)
                     /\ UNCHANGED <<skipped_pages, broken_urls>>
    /\ i' = i + 1
    /\ UNCHANGED <<site, events_csv, summary_csv, pc, snapshots, new_df, old_df,
                   added, run>>

\* after the loop, without the return on an empty all_events
ConcatEventsAlways ==
    /\ pc = "fetch"
    /\ i > Len(snapshots)
    /\ pc' = "load"
    /\ new_df' = Flatten(all_events)
    /\ UNCHANGED <<site, events_csv, summary_csv, snapshots, i, all_events,
                   skipped_pages, broken_urls, old_df, added, trace, run>>

\* update_events_csv, lines 276-287: after the loop
ConcatEvents ==
    /\ pc = "fetch"
    /\ i > Len(snapshots)
    /\ IF all_events = <<>>
       THEN /\ pc' = "idle"
            /\ UNCHANGED new_df
       ELSE /\ pc' = "load"
            /\ new_df' = Flatten(all_events)
    /\ UNCHANGED <<site, events_csv, summary_csv, snapshots, i, all_events,
                   skipped_pages, broken_urls, old_df, added, trace, run>>

\* update_events_csv, line 289
LoadEvents ==
    /\ pc = "load"
    /\ old_df' = load_existing(events_csv)
    /\ trace' = Append(trace, Read(EVENTS_CSV_PATH))
    /\ pc' = "merge"
    /\ UNCHANGED <<site, events_csv, summary_csv, snapshots, i, all_events,
                   skipped_pages, broken_urls, new_df, added, run>>

\* the write step loading the file once more after the write, to count the
\* rows added
WriteEventsRereads ==
    /\ pc = "merge"
    /\ LET combined == MergeEvents(old_df, new_df)
       IN  /\ events_csv' = EventsToCsv(combined)
           /\ added' = AddedCount(combined, old_df)
    /\ trace' = trace \o <<Write(EVENTS_CSV_PATH), Read(EVENTS_CSV_PATH)>>
    /\ run' = [run EXCEPT !.wrote = TRUE]
    /\ pc' = "idle"
    /\ UNCHANGED <<site, summary_csv, snapshots, i, all_events, skipped_pages,
                   broken_urls, new_df, old_df>>

\* update_events_csv, lines 290-311
WriteEvents ==
    /\ pc = "merge"
    /\ LET combined == MergeEvents(old_df, new_df)
       IN  /\ events_csv' = EventsToCsv(combined)
           /\ added' = AddedCount(combined, old_df)
    /\ trace' = Append(trace, Write(EVENTS_CSV_PATH))
    /\ run' = [run EXCEPT !.wrote = TRUE]
    /\ pc' = "idle"
    /\ UNCHANGED <<site, summary_csv, snapshots, i, all_events, skipped_pages,
                   broken_urls, new_df, old_df>>

\* update_summary_csv, lines 128-134
UpdateSummaryStart ==
    /\ pc = "idle"
    /\ run.n < MaxRuns
    /\ \E ok \in BOOLEAN :
         /\ trace' = <<Get(BASE_URL, ok)>>
         /\ \E df \in fetch_archive_summary_table(get_soup(site, BASE_URL, ok)) :
              /\ new_df' = df
              /\ pc' = IF df = <<>> THEN "idle" ELSE "sum_load"
    /\ run' = NewRun("summary")
    /\ old_df' = <<>>
    /\ added' = 0
    /\ UNCHANGED <<site, events_csv, summary_csv, snapshots, i, all_events,
                   skipped_pages, broken_urls>>

\* update_summary_csv, line 137
LoadSummary ==
    /\ pc = "sum_load"
    /\ old_df' = load_existing(summary_csv)
    /\ trace' = Append(trace, Read(SUMMARY_CSV_PATH))
    /\ pc' = "sum_merge"
    /\ UNCHANGED <<site, events_csv, summary_csv, snapshots, i, all_events,
                   skipped_pages, broken_urls, new_df, added, run>>

\* update_summary_csv, lines 138-149
WriteSummary ==
    /\ pc = "sum_merge"
    /\ \E combined \in MergeSummary(old_df, new_df) :
         /\ summary_csv' = SummaryToCsv(combined)
         /\ added' = AddedCount(combined, old_df)
    /\ trace' = Append(trace, Write(SUMMARY_CSV_PATH))
    /\ run' = [run EXCEPT !.wrote = TRUE]
    /\ pc' = "idle"
    /\ UNCHANGED <<site, events_csv, snapshots, i, all_events, skipped_pages,
                   broken_urls, new_df, old_df>>

Next ==
    \/ Publish
    \/ UpdateEventsStart
    \/ FetchSnapshot
    \/ ConcatEvents
    \/ LoadEvents
    \/ WriteEvents
    \/ UpdateSummaryStart
    \/ LoadSummary
    \/ WriteSummary

Spec == Init /\ [][Next]_vars

---------------------------------------------------------------------------
(* The merge on arbitrary tables: any prior events file, duplicates        *)
(* included, and any non-empty scraped frame                               *)

FileRow(snap, ename, peak, num) ==
    [SnapshotTime |-> snap, SnapshotURL |-> urljoin(BASE_URL, "a.html"),
     EventNum |-> num, EName |-> ename, Start |-> "2021-01-01 01:00:00",
     Stop |-> "", Peak |-> peak, GOESClass |-> "C1.0",
     DerivedPosition |-> "S10W20"]

\* rows of a prior file; the first is the prior row of the E1/E2 scenario
PriorRows ==
    {FileRow("01-Jan-2021 00:00", "E1", "2021-01-01T01:00", "1"),
     FileRow("02-Jan-2021 00:00", "E1", "2021-01-01 01:00:00", "2"),
     FileRow("02-Jan-2021 00:00", "E1", "", "3"),
     FileRow("garbled", "E1", "2021-01-02 02:00:00", "4"),
     FileRow("01-Jan-2021 00:00", "E2", "2021-01-02 02:00:00", "5"),
     FileRow("02-Jan-2021 00:00", "NA", "2021-01-01 01:00:00", "6")}

\* rows of a scraped frame: the snapshot time is one fetch_snapshot_links let
\* through, the identifier is not empty
ScrapedRows ==
    {FileRow("02-Jan-2021 00:00", "E1", "2021-01-02T02:00", "7"),
     FileRow("02-Jan-2021 00:00", "E2", "", "8"),
     FileRow("01-Jan-2021 00:00", "E1", "2021/01/02 02:00:00", "9"),
     FileRow("02-Jan-2021 00:00", "E1", "2021/01/01 01:00:00", "10"),
     FileRow("01-Jan-2021 00:00", "E1", "garbled", "11"),
     FileRow("02-Jan-2021 00:00", "NA", "2021/01/01 01:00:00", "12")}

InitMerge ==
    /\ site = [base |-> BaseMixed,
               pages |-> PageMap(PageOne, PageTwo, PageNoTable)]
    /\ events_csv \in SeqsUpTo(PriorRows, MaxOldRows)
    /\ summary_csv = <<>>
    /\ pc = "load"
    /\ snapshots = <<>>
    /\ i = 1
    /\ all_events = <<>>
    /\ skipped_pages = 0
    /\ broken_urls = <<>>
    /\ new_df \in SeqsUpTo(ScrapedRows, MaxNewRows) \ {<<>>}
    /\ old_df = <<>>
    /\ added = 0
    /\ trace = <<>>
    /\ run = [n |-> 1, mode |-> "events", site |-> site, wrote |-> FALSE,
              before |-> [events |-> events_csv, summary |-> <<>>],
              prev |-> [mode |-> "none", site |-> site, wrote |-> FALSE,
                        ok |-> TRUE]]

NextMerge ==
    \/ LoadEvents
    \/ WriteEvents

SpecMerge == InitMerge /\ [][NextMerge]_vars

---------------------------------------------------------------------------
(* fetch_snapshot_links on arbitrary base pages *)

IndexRows ==
    {BaseRow("05-Jan-2022 00:00", "a.html", 9),
     BaseRow("02-Jan-2021 00:00", "b.html", 9),
     BaseRow("03-Jan-2019 00:00", "c.html", 9),
     BaseRow("07-Jan-2023 00:00", "c.html", 9),
     BaseRow("05-Jan-2022 00:00", NoLink, 9),
     BaseRow("2021-01-01", "c.html", 9),
     BaseRow("Snapshot Time", NoLink, 0)}

InitLinks ==
    /\ site \in {[base |-> b, pages |-> PageMap(PageOne, PageTwo, PageNoTable)] :
                    b \in SeqsUpTo(IndexRows, MaxIndexRows)}
    /\ events_csv = <<>>
    /\ summary_csv = <<>>
    /\ pc = "idle"
    /\ snapshots = <<>>
    /\ i = 1
    /\ all_events = <<>>
    /\ skipped_pages = 0
    /\ broken_urls = <<>>
    /\ new_df = <<>>
    /\ old_df = <<>>
    /\ added = 0
    /\ trace = <<>>
    /\ run = [n |-> 0, mode |-> "none", site |-> site, wrote |-> FALSE,
              before |-> [events |-> <<>>, summary |-> <<>>],
              prev |-> [mode |-> "none", site |-> site, wrote |-> FALSE,
                        ok |-> TRUE]]

NextLinks == UpdateEventsStart

SpecLinks == InitLinks /\ [][NextLinks]_vars

---------------------------------------------------------------------------
(* The summary merge on arbitrary tables: any prior summary file and any    *)
(* non-empty frame fetch_archive_summary_table can return                   *)

SummaryRow(date, total) ==
    [ReportDate |-> date, StartTime |-> "00:00", EndTime |-> "23:59",
     TotalEvents |-> total, LargestFlare |-> "M1.0", Cclass |-> "3",
     Mclass |-> "2", Xclass |-> "0", ProtonEvents |-> "0"]

\* rows of a prior file: the report date is a text
PriorSummaryRows ==
    {SummaryRow("2021-01-02 00:00:00", "1"),
     SummaryRow("2021-01-02 00:00:00", "2"),
     SummaryRow("2022-01-05 00:00:00", "3"),
     SummaryRow("", "4"),
     SummaryRow("garbled", "5")}

\* rows of a scraped frame: the report date is a datetime not before MIN_YEAR
ScrapedSummaryRows ==
    {SummaryRow(2021010200, "7"),
     SummaryRow(2021010200, "8"),
     SummaryRow(2022010500, "9"),
     SummaryRow(2023010700, "10")}

InitSummary ==
    /\ site = [base |-> BaseMixed,
               pages |-> PageMap(PageOne, PageTwo, PageNoTable)]
    /\ events_csv = <<>>
    /\ summary_csv \in SeqsUpTo(PriorSummaryRows, MaxOldRows)
    /\ pc = "sum_load"
    /\ snapshots = <<>>
    /\ i = 1
    /\ all_events = <<>>
    /\ skipped_pages = 0
    /\ broken_urls = <<>>
    /\ new_df \in {df \in SeqsUpTo(ScrapedSummaryRows, MaxNewRows) \ {<<>>} :
                      df \in SortedByDate(df, TRUE)}
    /\ old_df = <<>>
    /\ added = 0
    /\ trace = <<>>
    /\ run = [n |-> 1, mode |-> "summary", site |-> site, wrote |-> FALSE,
              before |-> [events |-> <<>>, summary |-> summary_csv],
              prev |-> [mode |-> "none", site |-> site, wrote |-> FALSE,
                        ok |-> TRUE]]

NextSummary ==
    \/ LoadSummary
    \/ WriteSummary

SpecSummary == InitSummary /\ [][NextSummary]_vars

---------------------------------------------------------------------------
(* One events run on any prior events file, over archives whose snapshots   *)
(* carry different timestamps or the same one                               *)

\* three snapshots of three different times
BaseDistinct ==
    <<BaseRow("05-Jan-2022 00:00", "a.html", 9),
      BaseRow("02-Jan-2021 00:00", "b.html", 9),
      BaseRow("01-Jan-2021 00:00", "c.html", 9)>>

\* the first two snapshots are listed with the same time
BaseTwin ==
    <<BaseRow("02-Jan-2021 00:00", "a.html", 9),
      BaseRow("02-Jan-2021 00:00", "b.html", 9),
      BaseRow("01-Jan-2021 00:00", "c.html", 9)>>

\* E1 as PageOne shows it, under another event number
PageRevised == <<<<HeaderRow, EventRow("2", "E1", "2021/01/01 01:00:00", 7)>>>>

ArrivalSites ==
    {[base |-> b, pages |-> p] :
        b \in {BaseDistinct, BaseTwin},
        p \in PageMaps \cup {PageMap(PageOne, PageRevised, PageTwo)}}

InitArrival ==
    /\ site \in ArrivalSites
    /\ events_csv \in SeqsUpTo(PriorRows, MaxOldRows)
    /\ summary_csv = <<>>
    /\ pc = "idle"
    /\ snapshots = <<>>
    /\ i = 1
    /\ all_events = <<>>
    /\ skipped_pages = 0
    /\ broken_urls = <<>>
    /\ new_df = <<>>
    /\ old_df = <<>>
    /\ added = 0
    /\ trace = <<>>
    /\ run = [n |-> MaxRuns - 1, mode |-> "none", site |-> site,
              wrote |-> FALSE,
              before |-> [events |-> events_csv, summary |-> <<>>],
              prev |-> [mode |-> "none", site |-> site, wrote |-> FALSE,
                        ok |-> TRUE]]

NextArrival ==
    \/ UpdateEventsStart
    \/ FetchSnapshot
    \/ ConcatEvents
    \/ LoadEvents
    \/ WriteEvents

SpecArrival == InitArrival /\ [][NextArrival]_vars

---------------------------------------------------------------------------
(* Either merge on arbitrary tables *)

InitTables == InitMerge \/ InitSummary

NextTables ==
    \/ NextMerge
    \/ NextSummary

SpecTables == InitTables /\ [][NextTables]_vars

---------------------------------------------------------------------------
(* Properties *)

\* an events run has just written the events file
EventsWritten == pc = "idle" /\ run.mode = "events" /\ run.wrote

\* the records that went into the merge: the prior file as loaded, then the
\* scraped rows
MergeInput == Concat(load_existing(run.before.events), new_df)

SnapOf(r) == StrptimeArchive(r.SnapshotTime)
PeakOf(r) == ToDatetime(r.Peak)

\* the rows of the written file that carry the identifier of input record r
Survivors(r) ==
    {k \in DOMAIN events_csv : events_csv[k].EName = ToCsvCell(r.EName)}

\* the written row k is input record r, times rewritten by to_csv
IsWrittenFrom(k, r) ==
    events_csv[k] = EventsToCsv(DropParsed(ParseEventTimes(<<r>>)))[1]

\* C1: after a run that writes the events table, each identifier present in
\* the written table is carried by exactly one row, whatever the prior table
\* (duplicates included) and the scraped rows held.
C1_UniqueIdentifier ==
    EventsWritten =>
        /\ \A a, b \in DOMAIN events_csv :
              a # b => events_csv[a].EName # events_csv[b].EName
        /\ \A m \in DOMAIN MergeInput :
              Cardinality(Survivors(MergeInput[m])) = 1

\* C1 witness: a prior file with the same identifier twice, the identifier
\* scraped again, one row written
C1_Witness ==
    /\ EventsWritten
    /\ Len(run.before.events) = 2
    /\ run.before.events[1].EName = "E1"
    /\ run.before.events[2].EName = "E1"
    /\ \E m \in DOMAIN new_df : new_df[m].EName = "E1"
    /\ Len(events_csv) = 1

\* C2: of two input records (prior or scraped, in either order) with the same
\* identifier and different parseable snapshot times, the earlier one never
\* survives: the written row of that identifier is an input record of that
\* identifier whose snapshot is the later one's or later still.
C2_RecencyPrecedence ==
    EventsWritten =>
        \A a, b \in DOMAIN MergeInput :
            LET x == MergeInput[a]
                y == MergeInput[b]
            IN  (/\ x.EName = y.EName
                 /\ SnapOf(x) # NaT
                 /\ SnapOf(y) # NaT
                 /\ SnapOf(x) < SnapOf(y))
                => \A k \in Survivors(x) :
                      /\ SnapOf(events_csv[k]) >= SnapOf(y)
                      /\ \E m \in DOMAIN MergeInput :
                            /\ MergeInput[m].EName = x.EName
                            /\ IsWrittenFrom(k, MergeInput[m])
                      /\ (\A m \in DOMAIN MergeInput :
                             (MergeInput[m].EName = x.EName /\ m # b)
                                 => SnapOf(MergeInput[m]) < SnapOf(y))
                         => IsWrittenFrom(k, y)

\* C2 witness: the later snapshot's record comes first in the input (it is the
\* prior one), the earlier one is scraped, and the written row is the later
C2_Witness ==
    /\ EventsWritten
    /\ Len(run.before.events) = 1
    /\ Len(new_df) = 1
    /\ run.before.events[1].EName = new_df[1].EName
    /\ SnapOf(new_df[1]) # NaT
    /\ SnapOf(new_df[1]) < SnapOf(run.before.events[1])
    /\ Len(events_csv) = 1
    /\ events_csv[1].SnapshotTime = run.before.events[1].SnapshotTime

\* the sort key of a record: snapshot time, then peak; NaT is the least
KeyLess(x, y) ==
    \/ SnapOf(x) < SnapOf(y)
    \/ SnapOf(x) = SnapOf(y) /\ PeakOf(x) < PeakOf(y)

AddedScenario ==
    /\ EventsWritten
    /\ Len(run.before.events) = 1
    /\ run.before.events[1].EName = "E1"
    /\ run.before.events[1].SnapshotTime = "01-Jan-2021 00:00"
    /\ PeakOf(run.before.events[1]) = ToDatetime("2021-01-01T01:00")
    /\ Len(new_df) = 2
    /\ new_df[1].EName = "E1"
    /\ new_df[1].SnapshotTime = "02-Jan-2021 00:00"
    /\ PeakOf(new_df[1]) = ToDatetime("2021-01-02T02:00")
    /\ new_df[2].EName = "E2"

\* C7: the figure a writing run reports is max(0, rows written - rows of the
\* prior table), for the events and for the summary table; in the E1/E2
\* scenario two rows are written (E1 of the later snapshot, and E2) and the
\* figure is 1.
C7_AddedCount ==
    /\ (pc = "idle" /\ run.wrote /\ run.mode = "events")
          => added = Max(0, Len(events_csv) - Len(run.before.events))
    /\ (pc = "idle" /\ run.wrote /\ run.mode = "summary")
          => added = Max(0, Len(summary_csv) - Len(run.before.summary))
    /\ AddedScenario =>
          /\ Len(events_csv) = 2
          /\ IsWrittenFrom(1, new_df[1])
          /\ IsWrittenFrom(2, new_df[2])
          /\ added = 1

\* C7 witness: the scenario, with its two rows written and 1 reported
C7_Witness ==
    /\ AddedScenario
    /\ Len(events_csv) = 2
    /\ added = 1

\* an events run has fetched the base page
LinksFetched == run.mode = "events" /\ run.n > 0 /\ trace # <<>>

\* row k of the base page has a link whose text parses as a date
Linked(rows, k) ==
    /\ Len(rows[k].tds) >= 1
    /\ rows[k].href # NoLink
    /\ StrptimeArchive(rows[k].tds[1]) # NaT

\* row k is such a row, dated before the cutoff year
BelowCutoff(rows, k) ==
    /\ Linked(rows, k)
    /\ Year(StrptimeArchive(rows[k].tds[1])) < MIN_YEAR

\* the linked rows that precede the first row below the cutoff
Kept(rows) ==
    {k \in DOMAIN rows :
        Linked(rows, k) /\ \A j \in 1..k : ~BelowCutoff(rows, j)}

LinkOf(rows, k) ==
    [snapshot_time |-> rows[k].tds[1],
     snapshot_url |-> urljoin(BASE_URL, rows[k].href)]

\* the base page with rows dated 2022, 2021, 2019, 2023
CutoffScenario == run.site.base = Tail(BaseScenario)

\* C6: fetch_snapshot_links returns, in document order, exactly the rows with
\* a link and a parseable date that precede the first such row dated before
\* the cutoff year; rows without link or with an unparseable date are passed
\* over, and nothing after the first row below the cutoff is returned (rows
\* dated 2022, 2021, 2019, 2023 give 2022 and 2021 only).  A base page that
\* cannot be fetched gives the empty list.
C6_CutoffEarlyTermination ==
    LinksFetched =>
        LET rows == run.site.base
        IN  IF ~trace[1].ok THEN snapshots = <<>>
            ELSE /\ Len(snapshots) = Cardinality(Kept(rows))
                 /\ \A k \in Kept(rows) :
                       snapshots[Cardinality({j \in Kept(rows) : j <= k})]
                           = LinkOf(rows, k)
                 /\ CutoffScenario =>
                       snapshots = <<LinkOf(rows, 1), LinkOf(rows, 2)>>

\* C6 witness: the 2022, 2021, 2019, 2023 page fetched, two links returned
C6_Witness ==
    /\ LinksFetched
    /\ trace[1].ok
    /\ CutoffScenario
    /\ Len(snapshots) = 2

\* a command has run to its end
RunEnded == pc = "idle" /\ run.n > 0

\* what the snapshot of link s gives when its request is answered or not
FrameOf(s, ok) ==
    fetch_events_from_snapshot(s.snapshot_time, s.snapshot_url,
                               get_soup(run.site, s.snapshot_url, ok))

\* the frames of the first n links, by the answers the trace records
FramesOf(links, n) == [j \in 1..n |-> FrameOf(links[j], trace[j + 1].ok)]

\* an events run that ended without any row: no link, or no snapshot with rows
NoEventRows ==
    LET links == fetch_snapshot_links(BASE_URL,
                                      get_soup(run.site, BASE_URL, trace[1].ok))
    IN  /\ RunEnded
        /\ run.mode = "events"
        /\ \A j \in DOMAIN links : FrameOf(links[j], trace[j + 1].ok) = <<>>

\* a summary run that ended without any row
NoSummaryRows ==
    /\ RunEnded
    /\ run.mode = "summary"
    /\ fetch_archive_summary_table(get_soup(run.site, BASE_URL, trace[1].ok))
           = {<<>>}

\* C5: a run that extracts no row (no snapshot link, every snapshot empty, or
\* no summary row) writes nothing: both files are as they were when the run
\* began, no write is done, and no added row is reported.
C5_EmptyExtractionNoOp ==
    (NoEventRows \/ NoSummaryRows) =>
        /\ events_csv = run.before.events
        /\ summary_csv = run.before.summary
        /\ ~run.wrote
        /\ \A k \in DOMAIN trace : trace[k].op # "write"
        /\ added = 0

\* C5 witness: an events file exists, links are found, every snapshot is
\* skipped, the run has ended
C5_Witness ==
    /\ NoEventRows
    /\ events_csv # <<>>
    /\ Len(snapshots) = 2
    /\ skipped_pages = 2
    /\ events_csv = run.before.events

\* the first seven cells of the rows of at least seven <td> cells of the
\* event table of a snapshot page
LongEventCells(page) ==
    IF find_event_table(Soup(page)) = None THEN {}
    ELSE LET table == find_event_table(Soup(page)).body
         IN  {SubSeq(table[k].cells, 1, 7) :
                k \in {j \in DOMAIN table :
                         table[j].tag = "td" /\ Len(table[j].cells) >= 7}}

\* the first nine cells of the rows of at least nine <td> cells of a base page
LongSummaryCells(base) ==
    {SubSeq(base[k].tds, 1, 9) :
        k \in {j \in DOMAIN base : Len(base[j].tds) >= 9}}

\* a text as it stands in the file after any number of runs
Persisted(text) == {ToCsvCell(text), ToCsvCell(ReadCsvCell(text))}

\* C8: a row of fewer than 7 cells (events) or 9 cells (summary) contributes
\* nothing: every scraped row is, cell for cell, a row of at least that many
\* cells of the page it was scraped from, and every row of the two files
\* comes from such a row of some page.
C8_MinimumColumnDiscard ==
    /\ run.mode = "events" =>
          \A f \in DOMAIN all_events : \A k \in DOMAIN all_events[f] :
              LET r == all_events[f][k]
              IN  <<r.EventNum, r.EName, r.Start, r.Stop, r.Peak, r.GOESClass,
                    r.DerivedPosition>>
                      \in LongEventCells(run.site.pages[r.SnapshotURL])
    /\ run.mode = "summary" =>
          \A k \in DOMAIN new_df :
              \E c \in LongSummaryCells(run.site.base) :
                  /\ new_df[k].ReportDate = StrptimeArchive(c[1])
                  /\ new_df[k] = [new_df[k] EXCEPT
                        !.StartTime = c[2], !.EndTime = c[3],
                        !.TotalEvents = c[4], !.LargestFlare = c[5],
                        !.Cclass = c[6], !.Mclass = c[7], !.Xclass = c[8],
                        !.ProtonEvents = c[9]]
    /\ \A k \in DOMAIN events_csv :
          \E s \in Sites :
              \E c \in LongEventCells(s.pages[events_csv[k].SnapshotURL]) :
                  /\ events_csv[k].EventNum \in Persisted(c[1])
                  /\ events_csv[k].EName \in Persisted(c[2])
                  /\ events_csv[k].Peak = FormatDatetime(ToDatetime(c[5]))
                  /\ events_csv[k].GOESClass \in Persisted(c[6])
                  /\ events_csv[k].DerivedPosition \in Persisted(c[7])
    /\ \A k \in DOMAIN summary_csv :
          \E b \in BasePages : \E c \in LongSummaryCells(b) :
              /\ summary_csv[k].ReportDate
                     = FormatDatetime(StrptimeArchive(c[1]))
              /\ summary_csv[k].ProtonEvents \in Persisted(c[9])

\* C8 witness: a snapshot page with a row of 6 cells was fetched and scraped,
\* and the run wrote the events file
C8_Witness ==
    /\ EventsWritten
    /\ \E j \in DOMAIN snapshots :
          /\ trace[j + 1].ok
          /\ run.site.pages[snapshots[j].snapshot_url] = PageTwo
          /\ \E tr \in DOMAIN PageTwo[2] : Len(PageTwo[2][tr].cells) = 6

\* the links the loop has dealt with
Visited == IF pc = "fetch" THEN i - 1 ELSE Len(snapshots)

\* C10: a snapshot whose fetch fails, is not found, has no event table or no
\* row is counted as skipped and the loop goes on: at every point the run has
\* requested the base page and then each link dealt with exactly once, in
\* order; skipped_pages and broken_urls count the snapshots without rows;
\* the rows kept are those of the other snapshots; and when there are any,
\* the run writes the file, with the identifier of each of them in it.
C10_FetchFailureNonFatal ==
    LinksFetched =>
        LET frames == FramesOf(snapshots, Visited)
            empty == {j \in 1..Visited : frames[j] = <<>>}
        IN  /\ Cardinality({k \in DOMAIN trace : trace[k].op = "get"})
                   = 1 + Visited
            /\ \A j \in 1..Visited :
                   /\ trace[j + 1].op = "get"
                   /\ trace[j + 1].path = snapshots[j].snapshot_url
            /\ skipped_pages = Cardinality(empty)
            /\ Len(broken_urls) = Cardinality(empty)
            /\ \A j \in empty :
                   broken_urls[Cardinality({m \in empty : m <= j})]
                       = snapshots[j].snapshot_url
            /\ Flatten(all_events) = Flatten(frames)
            /\ pc \in {"load", "merge"} => new_df = Flatten(frames)
            /\ (pc = "idle" /\ Flatten(frames) # <<>>) =>
                   /\ run.wrote
                   /\ new_df = Flatten(frames)
                   /\ \A m \in DOMAIN new_df : Survivors(new_df[m]) # {}

\* C10 witness: the first of two snapshots failed, the second gave rows, and
\* the run wrote them
C10_Witness ==
    /\ EventsWritten
    /\ Len(snapshots) = 2
    /\ ~trace[2].ok
    /\ trace[3].ok
    /\ skipped_pages = 1
    /\ events_csv # <<>>

\* the run before this one was an events run on the same archive, and every
\* request of both runs was answered
SameSourceTwice ==
    /\ RunEnded
    /\ run.mode = "events"
    /\ run.prev.mode = "events"
    /\ run.prev.site = run.site
    /\ run.prev.ok
    /\ AllOk(trace)

\* C4: a second events run on identical source data, all fetches succeeding
\* both times, leaves the events file as the first run left it, rows and
\* order, and reports no added row.
C4_Idempotence ==
    SameSourceTwice =>
        /\ events_csv = run.before.events
        /\ added = 0

\* C9: no scraped record has an empty identifier, and, from an empty events
\* file on, no row of the events file ever has one.
C9_NonEmptyIdentifier ==
    /\ \A f \in DOMAIN all_events : \A k \in DOMAIN all_events[f] :
          all_events[f][k].EName # ""
    /\ \A k \in DOMAIN events_csv : events_csv[k].EName # ""

\* a summary run has just written the summary file
SummaryWritten == pc = "idle" /\ run.mode = "summary" /\ run.wrote

\* the prior summary table as the merge sees it: loaded, report dates parsed
PriorSummary == ParseReportDate(load_existing(run.before.summary))

\* the written row k is the frame row r, as to_csv writes it
IsSummaryRowOf(k, r) == summary_csv[k] = SummaryToCsv(<<r>>)[1]

\* C11: after a summary run that writes, no two rows of the written table
\* share a report date, every report date of the prior table and of the
\* scraped rows is in it, and the row of a report date that the scraped
\* frame holds is a scraped one (the last of that date in the frame), also
\* when the prior table has a row of that date.
C11_SummaryTieBreak ==
    SummaryWritten =>
        /\ \A a, b \in DOMAIN summary_csv :
              a # b => summary_csv[a].ReportDate # summary_csv[b].ReportDate
        /\ \A o \in DOMAIN PriorSummary :
              \E k \in DOMAIN summary_csv :
                  summary_csv[k].ReportDate
                      = FormatDatetime(PriorSummary[o].ReportDate)
        /\ \A n \in DOMAIN new_df :
              \E k \in DOMAIN summary_csv :
                  /\ summary_csv[k].ReportDate
                         = FormatDatetime(new_df[n].ReportDate)
                  /\ \E m \in DOMAIN new_df :
                         /\ new_df[m].ReportDate = new_df[n].ReportDate
                         /\ \A j \in DOMAIN new_df :
                                new_df[j].ReportDate = new_df[n].ReportDate
                                    => j <= m
                         /\ IsSummaryRowOf(k, new_df[m])

\* C11 witness: the prior table and the scraped frame each hold one row of
\* the same report date, with different figures, and the one written row is
\* the scraped one
C11_Witness ==
    /\ SummaryWritten
    /\ Len(PriorSummary) = 1
    /\ Len(new_df) = 1
    /\ PriorSummary[1].ReportDate = new_df[1].ReportDate
    /\ PriorSummary[1].TotalEvents # new_df[1].TotalEvents
    /\ Len(summary_csv) = 1
    /\ summary_csv[1].TotalEvents = new_df[1].TotalEvents

\* the positions of the run's I/O of one kind
Ops(op) == {k \in DOMAIN trace : trace[k].op = op}

\* the file the running command keeps
TablePath == IF run.mode = "events" THEN EVENTS_CSV_PATH ELSE SUMMARY_CSV_PATH

\* C12 as stated, for the runs that persist a table (a run that extracted no
\* row touches no file at all): a run that has ended has read the table
\* exactly once, as the first thing it did, and written it exactly once, as
\* the last; the read came before the write and no fetch came after the write.
C12_ReadAtStartWriteAtEnd ==
    (RunEnded /\ run.wrote) =>
        /\ Cardinality(Ops("read")) = 1
        /\ trace[1].op = "read"
        /\ Cardinality(Ops("write")) = 1
        /\ trace[Len(trace)].op = "write"
        /\ \A r \in Ops("read") : \A w \in Ops("write") : r < w
        /\ \A w \in Ops("write") : \A g \in Ops("get") : g < w

\* C12 amended: at every point of a run the table has been read at most
\* once and written at most once, both files are as the run found them until
\* the write, the read comes after every fetch of the run, and the write
\* comes directly after the read and is the last I/O of the run; a run that
\* extracted rows ends with exactly one read and one write of its own table,
\* a run that extracted none ends with neither.
C12_ReadOnceWriteOnce ==
    run.n > 0 =>
        /\ Cardinality(Ops("read")) <= 1
        /\ Cardinality(Ops("write")) <= 1
        /\ \A r \in Ops("read") :
              /\ trace[r].path = TablePath
              /\ \A g \in Ops("get") : g < r
              /\ r \in {Len(trace) - 1, Len(trace)}
        /\ \A w \in Ops("write") :
              /\ trace[w].path = TablePath
              /\ w = Len(trace)
              /\ (w - 1) \in Ops("read")
        /\ Ops("write") = {} =>
              /\ events_csv = run.before.events
              /\ summary_csv = run.before.summary
        /\ run.wrote <=> Ops("write") # {}
        /\ RunEnded =>
              /\ Ops("read") # {} <=> new_df # <<>>
              /\ Ops("write") # {} <=> new_df # <<>>

\* C12 witness: an events run fetched the base page and two snapshots, then
\* read the events file, then wrote it, and ended
C12_Witness ==
    /\ RunEnded
    /\ run.mode = "events"
    /\ Len(trace) = 5
    /\ Ops("get") = {1, 2, 3}
    /\ Ops("read") = {4}
    /\ Ops("write") = {5}
    /\ events_csv # run.before.events

\* the scraped frames concatenated in the order p of arrival
Arrived(p) == Flatten([k \in DOMAIN all_events |-> all_events[p[k]]])

\* the file the run would have written had the frames arrived in the order p
WrittenFor(p) == EventsToCsv(MergeEvents(old_df, Arrived(p)))

\* two differing rows of different snapshots have the same sort key: the
\* same parsed snapshot time and the same parsed peak
CrossTie ==
    \E f, g \in DOMAIN all_events :
        /\ f # g
        /\ \E a \in DOMAIN all_events[f] : \E b \in DOMAIN all_events[g] :
              LET x == all_events[f][a]
                  y == all_events[g][b]
              IN  /\ x # y
                  /\ SnapOf(x) = SnapOf(y)
                  /\ PeakOf(x) = PeakOf(y)

ReportDateOf(r) == ToDatetime(r.ReportDate)

\* C14: the rows of an events file just written come in descending order of
\* (snapshot time, peak), a row with an unparseable snapshot time behind
\* every row with a parseable one and, among rows of one snapshot time, a
\* row without parseable peak behind those with one; the rows of a summary
\* file just written come in descending order of report date, rows without
\* date last.
C14_PublishedOrder ==
    /\ EventsWritten =>
          \A a, b \in DOMAIN events_csv :
              a < b =>
                  /\ ~KeyLess(events_csv[a], events_csv[b])
                  /\ SnapOf(events_csv[a]) = NaT => SnapOf(events_csv[b]) = NaT
                  /\ (/\ SnapOf(events_csv[a]) = SnapOf(events_csv[b])
                      /\ PeakOf(events_csv[a]) = NaT)
                         => PeakOf(events_csv[b]) = NaT
    /\ SummaryWritten =>
          \A a, b \in DOMAIN summary_csv :
              a < b =>
                  /\ ReportDateOf(summary_csv[a]) >= ReportDateOf(summary_csv[b])
                  /\ ReportDateOf(summary_csv[a]) = NaT
                         => ReportDateOf(summary_csv[b]) = NaT

\* C14 witness: the prior file led with a row of unreadable snapshot time, a
\* row of another identifier was scraped, and the written file has the
\* scraped row first and the unreadable one last
C14_Witness ==
    /\ EventsWritten
    /\ Len(run.before.events) = 1
    /\ SnapOf(run.before.events[1]) = NaT
    /\ Len(events_csv) = 2
    /\ SnapOf(events_csv[1]) # NaT
    /\ SnapOf(events_csv[2]) = NaT
    /\ IsWrittenFrom(1, new_df[1])

\* the identifiers of the rows of a table
Identifiers(table) == {table[k].EName : k \in DOMAIN table}

\* no two rows of the table carry the same identifier
DuplicateFree(table) ==
    \A a, b \in DOMAIN table : a # b => table[a].EName # table[b].EName

\* C15: after an events run that writes, the identifiers in the events file
\* are those of the file as the run found it together with those of the
\* scraped rows, and when the file it found was duplicate-free the file has
\* at least as many rows as before; a run that does not write leaves the
\* file as it was.
C15_NoIdentifierLost ==
    /\ EventsWritten =>
          /\ Identifiers(events_csv)
                 = Identifiers(run.before.events) \cup Identifiers(new_df)
          /\ DuplicateFree(run.before.events)
                 => Len(events_csv) >= Len(run.before.events)
    /\ (run.n > 0 /\ ~(run.mode = "events" /\ run.wrote))
          => events_csv = run.before.events

====
